---- MODULE Spec2Model ----
(***************************************************************************)
(* A model of the cuckoo filter of src/cuckoofilter.go.                    *)
(*                                                                         *)
(* The Filter (Buckets, Count, BucketPow) and its operations NewFilter,    *)
(* CopyFilter, Lookup, Reset, Insert, InsertUnique, insert, reinsert,      *)
(* Delete, delete, Encode and Decode are translated from                   *)
(* src/cuckoofilter.go.  The bucket                                        *)
(* type and the hash layer (bucketSize, bucket.insert, bucket.delete,      *)
(* bucket.getFingerprintIndex, bucket.reset, getIndexAndFingerprint,       *)
(* getAltIndex, getNextPow2) are used by that file but are not part of it; *)
(* they are modelled from sections 4.1 and 4.2 of the specification.       *)
(***************************************************************************)
EXTENDS Integers, Sequences, FiniteSets

(***************************************************************************)
(* Bounds of the model.                                                    *)
(***************************************************************************)
\* Data items are the digests 0 .. NumData-1.
NumData == 4
\* NewFilter is called with a capacity in 0 .. MaxCap.
MaxCap == 5
\* Decode is given every byte sequence of length 0 .. MaxBytes.
MaxBytes == 8
\* The eviction loop of reinsert runs min(maxCuckooCount, KickBound) times.
KickBound == 2
\* getAltIndex is exercised for bucketPow in 0 .. MaxPow and for the
\* fingerprints 0 .. MaxProbeFp.
MaxPow == 3
MaxProbeFp == 12

\* NewFilter on its own is called with a capacity in 0 .. MaxNewCap.
MaxNewCap == 70

(***************************************************************************)
(* Program constants.                                                      *)
(***************************************************************************)
maxCuckooCount == 500

\* The 4 slots of a bucket (Decode divides the byte length by this 4).
bucketSize == 4

\* The values a byte of an encoding takes in the model.
ByteVals == {0, 1, 2}

\* The fingerprints the hash layer yields in the model (never the sentinel 0).
Fingerprints == {1, 2}

Data == 0 .. (NumData - 1)

\* The value of arg when the last call took no data: no data item.
NoData == NumData

Slots == 0 .. (bucketSize - 1)

(***************************************************************************)
(* Arithmetic helpers.                                                     *)
(***************************************************************************)
RECURSIVE Pow2(_)
Pow2(n) == IF n = 0 THEN 1 ELSE 2 * Pow2(n - 1)

RECURSIVE BitXor(_, _)
BitXor(a, b) ==
    IF a = 0 THEN b
    ELSE IF b = 0 THEN a
    ELSE (((a % 2) + (b % 2)) % 2) + 2 * BitXor(a \div 2, b \div 2)

\* math/bits.TrailingZeros of a non-zero value.
RECURSIVE TrailingZeros(_)
TrailingZeros(n) == IF n % 2 = 1 THEN 0 ELSE 1 + TrailingZeros(n \div 2)

Min(a, b) == IF a < b THEN a ELSE b

(***************************************************************************)
(* The hash layer (specification 4.1).                                     *)
(***************************************************************************)
\* The smallest power of two >= n.
RECURSIVE NextPow2From(_, _)
NextPow2From(n, p) == IF p >= n THEN p ELSE NextPow2From(n, 2 * p)

getNextPow2(n) == NextPow2From(n, 1)

\* The fingerprint slice of a digest, remapped away from the sentinel 0.
getFingerprint(hash) ==
    LET slice == hash % (Cardinality(Fingerprints) + 1)
    IN  IF slice = 0 THEN 1 ELSE slice

\* (index, fingerprint) of a data item: the fingerprint from one slice of the
\* digest, the index from another slice, masked to [0, 2^bucketPow).
getIndexAndFingerprint(data, bucketPow) ==
    [i  |-> (data \div (Cardinality(Fingerprints) + 1)) % Pow2(bucketPow),
     fp |-> getFingerprint(data)]

\* The secondary hash of a fingerprint alone.
altHash(fp) == (fp * 91) % Pow2(8)

getAltIndex_DropXor(fp, i, bucketPow) ==
    (altHash(fp) + i) % Pow2(bucketPow)

\* XOR of the secondary hash with the index, masked to [0, 2^bucketPow).
getAltIndex(fp, i, bucketPow) ==
    BitXor(altHash(fp), i) % Pow2(bucketPow)

(***************************************************************************)
(* The bucket (specification 4.2): bucketSize fingerprint slots.           *)
(***************************************************************************)
EmptyBucket == [j \in Slots |-> 0]

FirstSlot(b, fp) == CHOOSE j \in Slots : b[j] = fp /\ \A k \in Slots : k < j => b[k] # fp

\* Store fp in the first empty slot; fail when the bucket is full.
bucketInsert(b, fp) ==
    IF \E j \in Slots : b[j] = 0
    THEN [b |-> [b EXCEPT ![FirstSlot(b, 0)] = fp], ok |-> TRUE]
    ELSE [b |-> b, ok |-> FALSE]

\* Clear the first slot that holds fp; fail when none does.
bucketDelete(b, fp) ==
    IF \E j \in Slots : b[j] = fp
    THEN [b |-> [b EXCEPT ![FirstSlot(b, fp)] = 0], ok |-> TRUE]
    ELSE [b |-> b, ok |-> FALSE]

\* The first slot that holds fp, or -1.
getFingerprintIndex(b, fp) ==
    IF \E j \in Slots : b[j] = fp THEN FirstSlot(b, fp) ELSE -1

bucketReset(b) == EmptyBucket

(***************************************************************************)
(* The Filter.  A filter value is a record [Buckets, Count, BucketPow];    *)
(* Buckets is indexed from 0 as in the code.                               *)
(***************************************************************************)
NumBuckets(cf) == Cardinality(DOMAIN cf.Buckets)

NewFilter_NoDivision(capacity) ==
    LET c0 == getNextPow2(capacity)
        c  == IF c0 = 0 THEN 1 ELSE c0
    IN  [Buckets   |-> [i \in 0 .. (c - 1) |-> EmptyBucket],
         Count     |-> 0,
         BucketPow |-> TrailingZeros(c)]

NewFilter(capacity) ==
    LET c0 == getNextPow2(capacity) \div bucketSize
        c  == IF c0 = 0 THEN 1 ELSE c0
    IN  [Buckets   |-> [i \in 0 .. (c - 1) |-> EmptyBucket],
         Count     |-> 0,
         BucketPow |-> TrailingZeros(c)]

Lookup_PrimaryOnly(cf, data) ==
    LET h == getIndexAndFingerprint(data, cf.BucketPow)
    IN  getFingerprintIndex(cf.Buckets[h.i], h.fp) > -1

Lookup(cf, data) ==
    LET h  == getIndexAndFingerprint(data, cf.BucketPow)
        i2 == getAltIndex(h.fp, h.i, cf.BucketPow)
    IN  IF getFingerprintIndex(cf.Buckets[h.i], h.fp) > -1
        THEN TRUE
        ELSE getFingerprintIndex(cf.Buckets[i2], h.fp) > -1

Reset_KeepsCount(cf) ==
    [cf EXCEPT !.Buckets = [i \in DOMAIN cf.Buckets |-> bucketReset(cf.Buckets[i])]]

Reset(cf) ==
    [cf EXCEPT !.Buckets = [i \in DOMAIN cf.Buckets |-> bucketReset(cf.Buckets[i])],
               !.Count = 0]

\* randi(i1, i2) with the outcome coin of rand.Intn(2).
randi(i1, i2, coin) == IF coin = 0 THEN i1 ELSE i2

insert_NoCount(cf, fp, i) ==
    LET r == bucketInsert(cf.Buckets[i], fp)
    IN  IF r.ok
        THEN [cf |-> [cf EXCEPT !.Buckets[i] = r.b], ok |-> TRUE]
        ELSE [cf |-> cf, ok |-> FALSE]

insert(cf, fp, i) ==
    LET r == bucketInsert(cf.Buckets[i], fp)
    IN  IF r.ok
        THEN [cf |-> [cf EXCEPT !.Buckets[i] = r.b, !.Count = cf.Count + 1], ok |-> TRUE]
        ELSE [cf |-> cf, ok |-> FALSE]

\* The number of iterations of the eviction loop.
CuckooLimit == Min(maxCuckooCount, KickBound)

\* The outcomes of rand.Intn(bucketSize) over the iterations of one reinsert.
SlotChoices == [1 .. CuckooLimit -> Slots]

\* What a call that made no swap reports of its swaps.
NoSwap == [swaps |-> 0, hand |-> 0, empties |-> 0, loose |-> 0]

\* The outcome of a call: the filter it leaves, its result, and its swaps.
Outcome(cf, ok, sw) ==
    [cf |-> cf, ok |-> ok, swaps |-> sw.swaps, hand |-> sw.hand,
     empties |-> sw.empties, loose |-> sw.loose]

\* r, after one more swap before it: the swap picked up newfp from bucket b.
AfterSwap(r, b, newfp) ==
    [r EXCEPT !.empties = @ + (IF newfp = 0 THEN 1 ELSE 0),
              !.loose   = @ + (IF \E j \in Slots : b[j] = 0 THEN 1 ELSE 0)]

\* The loop of reinsert from iteration k on; js[k+1] is the slot drawn in
\* iteration k.  swaps counts the swaps made, hand is the fingerprint left
\* in hand when the loop gives up (0 when it does not), empties counts the
\* swaps that picked up the sentinel 0, loose the swaps made in a bucket
\* that had an empty slot.
RECURSIVE reinsertFrom(_, _, _, _, _)
reinsertFrom(cf, fp, i, js, k) ==
    IF k >= CuckooLimit
    THEN [cf |-> cf, ok |-> FALSE, swaps |-> k, hand |-> fp, empties |-> 0, loose |-> 0]
    ELSE LET j     == js[k + 1]
             oldfp == fp
             newfp == cf.Buckets[i][j]
             cf1   == [cf EXCEPT !.Buckets[i][j] = oldfp]
             ni    == getAltIndex(newfp, i, cf.BucketPow)
             r     == insert(cf1, newfp, ni)
         IN  IF r.ok
             THEN AfterSwap([cf |-> r.cf, ok |-> TRUE, swaps |-> k + 1, hand |-> 0,
                             empties |-> 0, loose |-> 0],
                            cf.Buckets[i], newfp)
             ELSE AfterSwap(reinsertFrom(cf1, newfp, ni, js, k + 1),
                            cf.Buckets[i], newfp)

\* reinsert that relocates the evicted fingerprint to the alternate bucket of
\* the incoming one.
RECURSIVE reinsertFrom_AltOfIncoming(_, _, _, _, _)
reinsertFrom_AltOfIncoming(cf, fp, i, js, k) ==
    IF k >= CuckooLimit
    THEN [cf |-> cf, ok |-> FALSE, swaps |-> k, hand |-> fp, empties |-> 0, loose |-> 0]
    ELSE LET j     == js[k + 1]
             oldfp == fp
             newfp == cf.Buckets[i][j]
             cf1   == [cf EXCEPT !.Buckets[i][j] = oldfp]
             ni    == getAltIndex(oldfp, i, cf.BucketPow)
             r     == insert(cf1, newfp, ni)
         IN  IF r.ok
             THEN AfterSwap([cf |-> r.cf, ok |-> TRUE, swaps |-> k + 1, hand |-> 0,
                             empties |-> 0, loose |-> 0],
                            cf.Buckets[i], newfp)
             ELSE AfterSwap(reinsertFrom_AltOfIncoming(cf1, newfp, ni, js, k + 1),
                            cf.Buckets[i], newfp)

reinsert_AltOfIncoming(cf, fp, i, js) == reinsertFrom_AltOfIncoming(cf, fp, i, js, 0)

\* reinsert that gives up when the first relocation finds a full bucket.
reinsert_GivesUpEarly(cf, fp, i, js) ==
    LET j     == js[1]
        newfp == cf.Buckets[i][j]
        cf1   == [cf EXCEPT !.Buckets[i][j] = fp]
        ni    == getAltIndex(newfp, i, cf.BucketPow)
        r     == insert(cf1, newfp, ni)
    IN  AfterSwap(IF r.ok
                  THEN [cf |-> r.cf, ok |-> TRUE, swaps |-> 1, hand |-> 0,
                        empties |-> 0, loose |-> 0]
                  ELSE [cf |-> cf1, ok |-> FALSE, swaps |-> 1, hand |-> newfp,
                        empties |-> 0, loose |-> 0],
                  cf.Buckets[i], newfp)

reinsert(cf, fp, i, js) == reinsertFrom(cf, fp, i, js, 0)

\* Insert that goes to eviction from the alternate bucket without a direct
\* insert there.
Insert_SkipsAlternate(cf, data, coin, js) ==
    LET h  == getIndexAndFingerprint(data, cf.BucketPow)
        r1 == insert(cf, h.fp, h.i)
        i2 == getAltIndex(h.fp, h.i, cf.BucketPow)
    IN  IF r1.ok THEN Outcome(r1.cf, TRUE, NoSwap)
        ELSE reinsert(cf, h.fp, i2, js)

Insert(cf, data, coin, js) ==
    LET h  == getIndexAndFingerprint(data, cf.BucketPow)
        r1 == insert(cf, h.fp, h.i)
        i2 == getAltIndex(h.fp, h.i, cf.BucketPow)
        r2 == insert(cf, h.fp, i2)
    IN  IF r1.ok THEN Outcome(r1.cf, TRUE, NoSwap)
        ELSE IF r2.ok THEN Outcome(r2.cf, TRUE, NoSwap)
        ELSE reinsert(cf, h.fp, randi(h.i, i2, coin), js)

InsertUnique_NoLookup(cf, data, coin, js) == Insert(cf, data, coin, js)

InsertUnique(cf, data, coin, js) ==
    IF Lookup(cf, data)
    THEN Outcome(cf, FALSE, NoSwap)
    ELSE Insert(cf, data, coin, js)

delete_NoDecrement(cf, fp, i) ==
    LET r == bucketDelete(cf.Buckets[i], fp)
    IN  IF r.ok
        THEN [cf |-> [cf EXCEPT !.Buckets[i] = r.b], ok |-> TRUE]
        ELSE [cf |-> cf, ok |-> FALSE]

delete(cf, fp, i) ==
    LET r == bucketDelete(cf.Buckets[i], fp)
    IN  IF r.ok
        THEN [cf |-> [cf EXCEPT !.Buckets[i] = r.b,
                                !.Count = IF cf.Count > 0 THEN cf.Count - 1 ELSE cf.Count],
              ok |-> TRUE]
        ELSE [cf |-> cf, ok |-> FALSE]

Delete_PrimaryOnly(cf, data) ==
    LET h == getIndexAndFingerprint(data, cf.BucketPow)
    IN  delete(cf, h.fp, h.i)

Delete_CountsMisses(cf, data) ==
    LET h  == getIndexAndFingerprint(data, cf.BucketPow)
        r1 == delete(cf, h.fp, h.i)
        i2 == getAltIndex(h.fp, h.i, cf.BucketPow)
        r2 == delete(cf, h.fp, i2)
    IN  IF r1.ok THEN r1
        ELSE IF r2.ok THEN r2
        ELSE [cf |-> [cf EXCEPT !.Count = IF cf.Count > 0 THEN cf.Count - 1 ELSE 0],
              ok |-> FALSE]

Delete_BothBuckets(cf, data) ==
    LET h  == getIndexAndFingerprint(data, cf.BucketPow)
        r1 == delete(cf, h.fp, h.i)
        i2 == getAltIndex(h.fp, h.i, cf.BucketPow)
        r2 == delete(r1.cf, h.fp, i2)
    IN  [cf |-> r2.cf, ok |-> r1.ok \/ r2.ok]

Delete(cf, data) ==
    LET h  == getIndexAndFingerprint(data, cf.BucketPow)
        r1 == delete(cf, h.fp, h.i)
        i2 == getAltIndex(h.fp, h.i, cf.BucketPow)
    IN  IF r1.ok THEN r1 ELSE delete(cf, h.fp, i2)

CountEntries(cf) == cf.Count

\* byte(f): the conversion of a fingerprint to a byte.
byte(f) == f % 256

Encode_SlotsReversed(cf) ==
    [n \in 1 .. (NumBuckets(cf) * bucketSize) |->
        byte(cf.Buckets[(n - 1) \div bucketSize][(bucketSize - 1) - ((n - 1) % bucketSize)])]

\* The flat byte sequence: byte index (i * bucketSize) + j of the code is
\* element (i * bucketSize) + j + 1 of the sequence.
Encode(cf) ==
    [n \in 1 .. (NumBuckets(cf) * bucketSize) |->
        byte(cf.Buckets[(n - 1) \div bucketSize][(n - 1) % bucketSize])]

NoFilter == [Buckets |-> << >>, Count |-> 0, BucketPow |-> 0]

\* The number of non-zero bytes among bytes[1 .. n].
RECURSIVE NonZero(_, _)
NonZero(bytes, n) ==
    IF n = 0 THEN 0
    ELSE NonZero(bytes, n - 1) + (IF bytes[n] # 0 THEN 1 ELSE 0)

Decode_CountsEveryByte(bytes) ==
    IF Len(bytes) % bucketSize # 0
    THEN [cf |-> NoFilter, err |-> "size"]
    ELSE IF Len(bytes) = 0
    THEN [cf |-> NoFilter, err |-> "empty"]
    ELSE LET n == Len(bytes) \div 4
         IN  [cf  |-> [Buckets   |-> [i \in 0 .. (n - 1) |->
                                         [j \in Slots |-> bytes[(i * bucketSize) + j + 1]]],
                       Count     |-> n * bucketSize,
                       BucketPow |-> TrailingZeros(n)],
              err |-> "nil"]

\* Decode that rounds BucketPow up to the next power of two.
Decode_PowRoundsUp(bytes) ==
    IF Len(bytes) % bucketSize # 0
    THEN [cf |-> NoFilter, err |-> "size"]
    ELSE IF Len(bytes) = 0
    THEN [cf |-> NoFilter, err |-> "empty"]
    ELSE LET n == Len(bytes) \div 4
         IN  [cf  |-> [Buckets   |-> [i \in 0 .. (n - 1) |->
                                         [j \in Slots |-> bytes[(i * bucketSize) + j + 1]]],
                       Count     |-> NonZero(bytes, n * bucketSize),
                       BucketPow |-> TrailingZeros(getNextPow2(n))],
              err |-> "nil"]

Decode(bytes) ==
    IF Len(bytes) % bucketSize # 0
    THEN [cf |-> NoFilter, err |-> "size"]
    ELSE IF Len(bytes) = 0
    THEN [cf |-> NoFilter, err |-> "empty"]
    ELSE LET n == Len(bytes) \div 4
         IN  [cf  |-> [Buckets   |-> [i \in 0 .. (n - 1) |->
                                         [j \in Slots |-> bytes[(i * bucketSize) + j + 1]]],
                       Count     |-> NonZero(bytes, n * bucketSize),
                       BucketPow |-> TrailingZeros(n)],
              err |-> "nil"]

(***************************************************************************)
(* The state: the fields of the Filter under observation, and the last     *)
(* call with its argument and results.                                     *)
(***************************************************************************)
VARIABLES
    Buckets,    \* Filter.Buckets
    Count,      \* Filter.Count
    BucketPow,  \* Filter.BucketPow
    op,         \* the last call: "New", "Insert", "InsertUnique", "Delete",
                \*   "Reset", "RoundTrip", "Decode", "getAltIndex"
    arg,        \* its data argument, or NoData
    ret,        \* its boolean result
    swaps,      \* the swaps it made in reinsert
    hand,       \* the fingerprint reinsert was left with when it gave up (0: none)
    follows,    \* whether the call before it was an Insert of the same data
                \*   that returned true
    calls,      \* the calls made on the filter since its construction,
                \*   CallCap standing for "CallCap or more"
    input,      \* the byte sequence handed to Decode
    err,        \* the error of Decode: "nil", "size" or "empty"
    probe,      \* the arguments and results of a getAltIndex round trip
    empties,    \* the swaps of the last call that picked up the sentinel 0
    loose,      \* the swaps of the last call made in a bucket with an empty slot
    capacity,   \* the capacity handed to NewFilter
    heap,       \* the bucket arrays in memory, by address
    slice       \* the address of the array Filter.Buckets refers to
                \*   (0: the array is not tracked in heap)

vars == <<Buckets, Count, BucketPow, op, arg, ret, swaps, hand, follows, calls,
          input, err, probe, empties, loose, capacity, heap, slice>>

\* The Filter under observation as a value.
this == [Buckets |-> Buckets, Count |-> Count, BucketPow |-> BucketPow]

\* The Filter of the next state.
thisNext == [Buckets |-> Buckets', Count |-> Count', BucketPow |-> BucketPow']

CallCap == 2

NoProbe == [fp |-> 0, i |-> 0, pow |-> 0, alt |-> 0, back |-> 0]

SetFilter(f) ==
    /\ Buckets' = f.Buckets
    /\ Count' = f.Count
    /\ BucketPow' = f.BucketPow

\* The addresses of bucket arrays; no array is allocated at construction.
Addrs == {1, 2}

NoArray == << >>

NoHeap == [a \in Addrs |-> NoArray]

\* The variables no call has touched yet.
Untouched ==
    /\ arg = NoData
    /\ ret = FALSE
    /\ swaps = 0
    /\ hand = 0
    /\ empties = 0
    /\ loose = 0
    /\ follows = FALSE
    /\ calls = 0

(***************************************************************************)
(* CopyFilter.  Bucket arrays live in a memory mem, by address; the source *)
(* slice buckets and the Buckets of the Filter returned are addresses.     *)
(***************************************************************************)
\* The address make allocates at: the first one that holds no array.
Fresh(mem) ==
    CHOOSE a \in Addrs : mem[a] = NoArray /\ \A b \in Addrs : b < a => mem[b] # NoArray

CopyFilter_SharesArray(mem, buckets, count, bucketPow) ==
    [mem |-> mem,
     cf  |-> [Buckets |-> buckets, Count |-> count, BucketPow |-> bucketPow]]

CopyFilter(mem, buckets, count, bucketPow) ==
    LET newBucket == Fresh(mem)
        made      == [i \in DOMAIN mem[buckets] |-> EmptyBucket]
        copied    == [i \in DOMAIN made |-> mem[buckets][i]]
    IN  [mem |-> [mem EXCEPT ![newBucket] = copied],
         cf  |-> [Buckets |-> newBucket, Count |-> count, BucketPow |-> bucketPow]]

(***************************************************************************)
(* Construction: NewFilter(capacity), or a successful Decode.              *)
(***************************************************************************)
Capacities == 0 .. MaxCap

\* The byte lengths of the encodings a filter is decoded from at
\* construction: 1, 2 and 3 buckets.
DecodeLens == {4, 8, 12}

\* Encodings whose first k bytes are b and whose other bytes are 0.
PrefixFilled == { [n \in 1 .. len |-> IF n <= k THEN b ELSE 0] :
                    len \in DecodeLens, k \in {0, 3}, b \in ByteVals \ {0} }

\* The filters a behaviour starts from.
Constructed ==
    {NewFilter(c) : c \in Capacities} \cup {Decode(bytes).cf : bytes \in PrefixFilled}

InitWith(f) ==
    /\ Buckets = f.Buckets
    /\ Count = f.Count
    /\ BucketPow = f.BucketPow
    /\ op = "New"
    /\ Untouched
    /\ input = << >>
    /\ err = "nil"
    /\ probe = NoProbe
    /\ capacity = 0
    /\ heap = NoHeap
    /\ slice = 0

Init == \E f \in Constructed : InitWith(f)

(***************************************************************************)
(* The operations on the Filter, one action each.                          *)
(***************************************************************************)
\* What a call named name on data d with outcome r leaves behind.
Returned(name, d, r) ==
    /\ SetFilter(r.cf)
    /\ op' = name
    /\ arg' = d
    /\ ret' = r.ok
    /\ swaps' = r.swaps
    /\ hand' = r.hand
    /\ empties' = r.empties
    /\ loose' = r.loose
    /\ follows' = (op = "Insert" /\ ret /\ arg = d)
    /\ calls' = Min(calls + 1, CallCap)
    /\ heap' = IF slice = 0 THEN heap ELSE [heap EXCEPT ![slice] = r.cf.Buckets]
    /\ UNCHANGED <<input, err, probe, capacity, slice>>

\* Insert consults rand only when both candidate buckets are full.
NeedsEviction(f, d) ==
    LET h == getIndexAndFingerprint(d, f.BucketPow)
    IN  /\ ~insert(f, h.fp, h.i).ok
        /\ ~insert(f, h.fp, getAltIndex(h.fp, h.i, f.BucketPow)).ok

NoChoice == [k \in 1 .. CuckooLimit |-> 0]

InsertCall(d) ==
    \/ /\ ~NeedsEviction(this, d)
       /\ Returned("Insert", d, Insert(this, d, 0, NoChoice))
    \/ /\ NeedsEviction(this, d)
       /\ \E coin \in {0, 1}, js \in SlotChoices :
             Returned("Insert", d, Insert(this, d, coin, js))

InsertUniqueCall(d) ==
    \/ /\ Lookup(this, d) \/ ~NeedsEviction(this, d)
       /\ Returned("InsertUnique", d, InsertUnique(this, d, 0, NoChoice))
    \/ /\ ~Lookup(this, d) /\ NeedsEviction(this, d)
       /\ \E coin \in {0, 1}, js \in SlotChoices :
             Returned("InsertUnique", d, InsertUnique(this, d, coin, js))

DeleteCall(d) ==
    LET r == Delete(this, d)
    IN  Returned("Delete", d, Outcome(r.cf, r.ok, NoSwap))

ResetCall ==
    Returned("Reset", NoData, Outcome(Reset(this), FALSE, NoSwap))

\* Decode(cf.Encode()): the filter under observation becomes the decoded
\* one; ret tells whether Decode returned a filter and no error.
RoundTrip ==
    LET r == Decode(Encode(this))
    IN  Returned("RoundTrip", NoData, Outcome(r.cf, r.err = "nil", NoSwap))

Next ==
    \/ \E d \in Data : InsertCall(d)
    \/ \E d \in Data : InsertUniqueCall(d)
    \/ \E d \in Data : DeleteCall(d)
    \/ ResetCall
    \/ RoundTrip

Spec == Init /\ [][Next]_vars

(***************************************************************************)
(* Decode on its own: every byte sequence of length 0 .. MaxBytes.         *)
(***************************************************************************)
RECURSIVE ByteSeqs(_)
ByteSeqs(n) ==
    IF n = 0 THEN {<< >>}
    ELSE LET shorter == ByteSeqs(n - 1)
         IN  shorter \cup {Append(q, b) : q \in {x \in shorter : Len(x) = n - 1}, b \in ByteVals}

InitDecode ==
    /\ input \in ByteSeqs(MaxBytes)
    /\ Buckets = NoFilter.Buckets
    /\ Count = NoFilter.Count
    /\ BucketPow = NoFilter.BucketPow
    /\ op = "New"
    /\ Untouched
    /\ err = "nil"
    /\ probe = NoProbe
    /\ capacity = 0
    /\ heap = NoHeap
    /\ slice = 0

DecodeCall ==
    /\ op = "New"
    /\ SetFilter(Decode(input).cf)
    /\ err' = Decode(input).err
    /\ op' = "Decode"
    /\ ret' = (Decode(input).err = "nil")
    /\ UNCHANGED <<arg, swaps, hand, follows, calls, input, probe,
                 empties, loose, capacity, heap, slice>>

SpecDecode == InitDecode /\ [][DecodeCall]_vars

(***************************************************************************)
(* getAltIndex on its own: every fingerprint 0 .. MaxProbeFp, every        *)
(* bucketPow 0 .. MaxPow and every index below 2^bucketPow.                *)
(***************************************************************************)
InitAlt ==
    /\ \E fp \in 0 .. MaxProbeFp, pow \in 0 .. MaxPow :
          \E i \in 0 .. (Pow2(pow) - 1) :
             probe = [fp |-> fp, i |-> i, pow |-> pow, alt |-> 0, back |-> 0]
    /\ Buckets = NoFilter.Buckets
    /\ Count = NoFilter.Count
    /\ BucketPow = NoFilter.BucketPow
    /\ op = "New"
    /\ Untouched
    /\ input = << >>
    /\ err = "nil"
    /\ capacity = 0
    /\ heap = NoHeap
    /\ slice = 0

\* alt = getAltIndex(fp, i), back = getAltIndex(fp, alt).
AltCall ==
    /\ op = "New"
    /\ op' = "getAltIndex"
    /\ probe' = [probe EXCEPT
                    !.alt = getAltIndex(probe.fp, probe.i, probe.pow),
                    !.back = getAltIndex(probe.fp,
                                         getAltIndex(probe.fp, probe.i, probe.pow),
                                         probe.pow)]
    /\ UNCHANGED <<Buckets, Count, BucketPow, arg, ret, swaps, hand, follows, calls,
                 input, err, empties, loose, capacity, heap, slice>>

SpecAlt == InitAlt /\ [][AltCall]_vars

(***************************************************************************)
(* NewFilter on its own: every capacity 0 .. MaxNewCap.                    *)
(***************************************************************************)
InitNew ==
    /\ capacity \in 0 .. MaxNewCap
    /\ Buckets = NoFilter.Buckets
    /\ Count = NoFilter.Count
    /\ BucketPow = NoFilter.BucketPow
    /\ op = "New"
    /\ Untouched
    /\ input = << >>
    /\ err = "nil"
    /\ probe = NoProbe
    /\ heap = NoHeap
    /\ slice = 0

NewFilterCall ==
    /\ op = "New"
    /\ SetFilter(NewFilter(capacity))
    /\ op' = "NewFilter"
    /\ UNCHANGED <<arg, ret, swaps, hand, follows, calls, input, err, probe,
                 empties, loose, capacity, heap, slice>>

SpecNew == InitNew /\ [][NewFilterCall]_vars

(***************************************************************************)
(* Vocabulary of the properties.                                           *)
(***************************************************************************)
SlotsOf(f) == (DOMAIN f.Buckets) \X Slots

\* The number of slots that hold a non-zero fingerprint.
Occupied(f) == Cardinality({s \in SlotsOf(f) : f.Buckets[s[1]][s[2]] # 0})

\* The number of slots that hold x.
FpCount(f, x) == Cardinality({s \in SlotsOf(f) : f.Buckets[s[1]][s[2]] = x})

StoredIn(f) == {f.Buckets[s[1]][s[2]] : s \in SlotsOf(f)} \ {0}

\* f and g store the same multiset of fingerprints.
SameMultiset(f, g) ==
    \A x \in StoredIn(f) \cup StoredIn(g) : FpCount(f, x) = FpCount(g, x)

\* The two candidate buckets of a data item.
Candidates(f, data) ==
    LET h == getIndexAndFingerprint(data, f.BucketPow)
    IN  {h.i, getAltIndex(h.fp, h.i, f.BucketPow)}

\* The copies of the item's fingerprint in its candidate buckets.
Copies(f, data) ==
    LET fp == getIndexAndFingerprint(data, f.BucketPow).fp
    IN  Cardinality({s \in SlotsOf(f) : s[1] \in Candidates(f, data) /\ f.Buckets[s[1]][s[2]] = fp})

\* Two items share their fingerprint and their candidate buckets.
Collide(f, d1, d2) ==
    /\ getIndexAndFingerprint(d1, f.BucketPow).fp = getIndexAndFingerprint(d2, f.BucketPow).fp
    /\ Candidates(f, d1) = Candidates(f, d2)

IsPow2(n) == \E k \in 0 .. n : Pow2(k) = n

\* The step is an Insert or InsertUnique whose eviction loop gave up.
FailedEviction == op' \in {"Insert", "InsertUnique"} /\ hand' # 0

(***************************************************************************)
(* CopyFilter on a source array that the caller keeps and writes to, and   *)
(* Insert, Delete and Reset on the Filter that CopyFilter returned.        *)
(***************************************************************************)
\* The address of the caller's array.
SourceAddr == 1

\* The arrays the caller hands to CopyFilter: those of the one-bucket
\* filters a behaviour of Spec starts from.
SourceArrays == {f.Buckets : f \in {g \in Constructed : NumBuckets(g) = 1}}

\* The data items inserted in and deleted from the copy: one for each
\* fingerprint.
CopyData == {1, 2}

\* The slots of its array the caller writes to after the copy.
WrittenSlots == {0}

\* The caller's array as a filter, to count its entries.
Source == [Buckets |-> heap[SourceAddr], Count |-> 0, BucketPow |-> 0]

InitCopy ==
    /\ \E b \in SourceArrays : heap = [a \in Addrs |-> IF a = SourceAddr THEN b ELSE NoArray]
    /\ slice = 0
    /\ Buckets = NoFilter.Buckets
    /\ Count = NoFilter.Count
    /\ BucketPow = NoFilter.BucketPow
    /\ op = "New"
    /\ Untouched
    /\ input = << >>
    /\ err = "nil"
    /\ probe = NoProbe
    /\ capacity = 0

\* cf := CopyFilter(buckets, count, bucketPow); Buckets shows the array
\* cf.Buckets refers to.
CopyFilterCall(count, bucketPow) ==
    /\ slice = 0
    /\ LET r == CopyFilter(heap, SourceAddr, count, bucketPow)
       IN  /\ heap' = r.mem
           /\ slice' = r.cf.Buckets
           /\ Buckets' = r.mem[r.cf.Buckets]
           /\ Count' = r.cf.Count
           /\ BucketPow' = r.cf.BucketPow
    /\ op' = "CopyFilter"
    /\ UNCHANGED <<arg, ret, swaps, hand, follows, calls, input, err, probe,
                 empties, loose, capacity>>

\* The caller stores v in slot j of bucket i of its own array.
SourceWrite(i, j, v) ==
    /\ slice # 0
    /\ heap' = [heap EXCEPT ![SourceAddr][i][j] = v]
    /\ Buckets' = heap'[slice]
    /\ op' = "SourceWrite"
    /\ UNCHANGED <<Count, BucketPow, arg, ret, swaps, hand, follows, calls, input,
                 err, probe, empties, loose, capacity, slice>>

NextCopy ==
    \/ \E count \in {0, Occupied(Source)} :
          CopyFilterCall(count, TrailingZeros(NumBuckets(Source)))
    \/ slice # 0 /\ \E d \in CopyData : InsertCall(d)
    \/ slice # 0 /\ \E d \in CopyData : DeleteCall(d)
    \/ slice # 0 /\ ResetCall
    \/ \E i \in DOMAIN heap[SourceAddr], j \in WrittenSlots, v \in Fingerprints \cup {0} :
          SourceWrite(i, j, v)

SpecCopy == InitCopy /\ [][NextCopy]_vars

(***************************************************************************)
(* Delete on its own, on the filters CopyFilter returns for arrays of one  *)
(* and two buckets, given their number of entries as count, or 0.          *)
(***************************************************************************)
\* Buckets with fingerprints, or none, in their first two slots.
DeleteBuckets ==
    { [j \in Slots |-> IF j = 0 THEN a ELSE IF j = 1 THEN b ELSE 0] :
        a \in Fingerprints \cup {0}, b \in Fingerprints \cup {0} }

DeleteArrays == UNION { [0 .. (n - 1) -> DeleteBuckets] : n \in {1, 2} }

InitDelete ==
    /\ \E b \in DeleteArrays, counted \in BOOLEAN :
          LET mem == [a \in Addrs |-> IF a = SourceAddr THEN b ELSE NoArray]
              src == [Buckets |-> b, Count |-> 0, BucketPow |-> 0]
              r   == CopyFilter(mem, SourceAddr,
                                IF counted THEN Occupied(src) ELSE 0,
                                TrailingZeros(NumBuckets(src)))
          IN  /\ heap = r.mem
              /\ slice = r.cf.Buckets
              /\ Buckets = r.mem[r.cf.Buckets]
              /\ Count = r.cf.Count
              /\ BucketPow = r.cf.BucketPow
    /\ op = "New"
    /\ Untouched
    /\ input = << >>
    /\ err = "nil"
    /\ probe = NoProbe
    /\ capacity = 0

NextDelete == \E d \in Data : DeleteCall(d)

SpecDelete == InitDelete /\ [][NextDelete]_vars

(***************************************************************************)
(* C1 -- no false negatives.                                               *)
(***************************************************************************)
\* C1 as stated, for the call that follows a successful Insert(d): when
\* Insert(d) has just returned true and the next call is an Insert,
\* InsertUnique or Delete other than Delete(d), and no Insert returned false,
\* then Lookup(d) returns true afterwards -- also when that call is on data
\* sharing d's fingerprint and candidate buckets.
C1_Original ==
    [][ \A d \in Data :
          ( /\ op = "Insert" /\ arg = d /\ ret
            /\ op' \in {"Insert", "InsertUnique", "Delete"}
            /\ ~(op' = "Delete" /\ arg' = d)
            /\ ~FailedEviction )
          => Lookup(thisNext, d) ]_vars

\* C1 (amended): no false negatives.  An Insert or InsertUnique of d that
\* returns true makes Lookup(d) true, and Lookup(d) stays true over every
\* call that is not a Reset, not an Insert that returned false, and not a
\* Delete of d or of an item that shares d's fingerprint and candidate
\* buckets; so Lookup(d) is true for as long as none of these has happened
\* since the successful Insert(d).
C1_NoFalseNegatives ==
    [][ \A d \in Data :
          /\ (op' \in {"Insert", "InsertUnique"} /\ arg' = d /\ ret')
                => Lookup(thisNext, d)
          /\ ( /\ Lookup(this, d)
               /\ op' \in {"Insert", "InsertUnique", "Delete", "RoundTrip"}
               /\ ~FailedEviction
               /\ ~(op' = "Delete" /\ Collide(this, arg', d)) )
                => Lookup(thisNext, d) ]_vars

\* An Insert has just succeeded by relocating fingerprints: the inserted
\* item is found, and so is an item with other candidate buckets or another
\* fingerprint.
C1_Witness ==
    /\ op = "Insert" /\ ret /\ swaps > 0
    /\ Lookup(this, arg)
    /\ \E d \in Data : ~Collide(this, d, arg) /\ Lookup(this, d)

(***************************************************************************)
(* C2 -- the count invariant.                                              *)
(***************************************************************************)
\* C2: in every state reachable from NewFilter or a successful Decode by
\* Insert, InsertUnique, Delete and Reset calls (failed Inserts included),
\* CountEntries() is the number of slots holding a non-zero fingerprint.
C2_CountInvariant == CountEntries(this) = Occupied(this)

\* A failed Insert has just churned a filter that holds entries.
C2_Witness == op = "Insert" /\ ~ret /\ hand # 0 /\ Count = Occupied(this) /\ Count > 0

(***************************************************************************)
(* C3 -- a failed Insert.                                                  *)
(***************************************************************************)
\* C3: when Insert(d) returns false, the multiset of stored fingerprints is
\* the same as before the call, and every item whose Lookup was true before
\* the call still has Lookup true after it.
C3_FailedInsertLosesNothing ==
    [][ (op' = "Insert" /\ ~ret')
          => /\ SameMultiset(this, thisNext)
             /\ \A d \in Data : Lookup(this, d) => Lookup(thisNext, d) ]_vars

(***************************************************************************)
(* C4 -- Delete right after a successful Insert.                           *)
(***************************************************************************)
\* C4: when Insert(d) returned true and is immediately followed by
\* Delete(d), the Delete returns true, Count is exactly one less than after
\* the Insert, and Lookup(d) is true afterwards only if another copy of d's
\* fingerprint sat in d's candidate buckets (exactly then, in fact).
C4_DeleteAfterInsert ==
    [][ (op' = "Delete" /\ follows')
          => /\ ret'
             /\ Count' = Count - 1
             /\ Lookup(thisNext, arg') <=> (Copies(this, arg') >= 2) ]_vars

\* Delete(d) has just followed a successful Insert(d) and returned true;
\* d is not found any more, and other entries remain.
C4_Witness == op = "Delete" /\ follows /\ ret /\ ~Lookup(this, arg) /\ Count > 0

(***************************************************************************)
(* C5 -- Delete of an absent item.                                         *)
(***************************************************************************)
\* C5 as stated, for an item that was never inserted: the only call on a
\* filter constructed empty was a successful Insert of other data; then
\* Delete(d) returns false and leaves the buckets and Count unchanged.
C5_Original ==
    [][ \A d \in Data :
          ( /\ calls = 1 /\ op = "Insert" /\ arg # d /\ ret /\ Count = 1
            /\ op' = "Delete" /\ arg' = d )
          => (~ret' /\ thisNext = this) ]_vars

\* C5 (amended): Delete(d) for an item whose fingerprint is in neither of
\* its candidate buckets returns false and leaves the buckets and Count
\* unchanged.
C5_DeleteAbsent ==
    [][ (op' = "Delete" /\ ~Lookup(this, arg'))
          => (~ret' /\ thisNext = this) ]_vars

\* A Delete of an item that was not found has just returned false on a
\* filter that holds entries.
C5_Witness == op = "Delete" /\ ~ret /\ ~Lookup(this, arg) /\ Count > 1

(***************************************************************************)
(* C6 -- the Encode/Decode round trip.                                     *)
(***************************************************************************)
\* C6: Decode(Encode(f)) succeeds and yields a filter with the same number
\* of buckets, the same slots, the same Count and the same BucketPow as f.
C6_RoundTrip ==
    [][ (op' = "RoundTrip")
          => /\ ret'
             /\ NumBuckets(thisNext) = NumBuckets(this)
             /\ Buckets' = Buckets
             /\ Count' = Count
             /\ BucketPow' = BucketPow ]_vars

\* A filter of two buckets that holds different fingerprints in different
\* slots has just been encoded and decoded.
C6_Witness ==
    /\ op = "RoundTrip" /\ ret
    /\ NumBuckets(this) = 2
    /\ Buckets[0][0] # Buckets[0][3]
    /\ Buckets[1][0] # 0

(***************************************************************************)
(* C7 -- the validation of Decode, under the specification SpecDecode.     *)
(***************************************************************************)
\* C7: Decode fails exactly when the length is 0 or no multiple of 4, with
\* the empty-input error for the empty input and the size-mismatch error
\* for a length that is no multiple of 4, and returns no filter then;
\* otherwise it yields len/4 buckets and Count = the number of non-zero
\* bytes.
C7_DecodeValidation ==
    op = "Decode" =>
        /\ (err # "nil") <=> (Len(input) = 0 \/ Len(input) % 4 # 0)
        /\ Len(input) = 0 => err = "empty"
        /\ Len(input) % 4 # 0 => err = "size"
        /\ err # "nil" => (~ret /\ this = NoFilter)
        /\ err = "nil" =>
              /\ ret
              /\ NumBuckets(this) = Len(input) \div 4
              /\ Count = Cardinality({n \in 1 .. Len(input) : input[n] # 0})

\* Decode has just succeeded on two buckets with zero and non-zero bytes.
C7_Witness ==
    /\ op = "Decode" /\ err = "nil"
    /\ NumBuckets(this) = 2
    /\ Count > 0 /\ Count < Len(input)

(***************************************************************************)
(* C8 -- the bucket array is a power of two.                               *)
(***************************************************************************)
\* C8: for every filter from NewFilter or a successful Decode, and after
\* any calls on it, the number of buckets is a power of two and BucketPow
\* is its log2.
C8_PowerOfTwo ==
    /\ IsPow2(NumBuckets(this))
    /\ NumBuckets(this) = Pow2(BucketPow)

(***************************************************************************)
(* C9 -- getAltIndex is its own inverse, under the specification SpecAlt.  *)
(***************************************************************************)
\* C9: for every fingerprint, every BucketPow and every index i below
\* 2^BucketPow, getAltIndex(fp, getAltIndex(fp, i)) = i and
\* getAltIndex(fp, i) is below 2^BucketPow.
C9_AltIndexSymmetry ==
    op = "getAltIndex" =>
        /\ probe.back = probe.i
        /\ probe.alt \in 0 .. (Pow2(probe.pow) - 1)

\* An index has just been mapped to another bucket and back.
C9_Witness ==
    /\ op = "getAltIndex"
    /\ probe.pow >= 2
    /\ probe.alt # probe.i
    /\ probe.back = probe.i

(***************************************************************************)
(* C10 -- InsertUnique.                                                    *)
(***************************************************************************)
\* C10: when Lookup(d) is true, InsertUnique(d) returns false and leaves
\* the buckets and Count unchanged; when Lookup(d) is false, it has a
\* result and an effect of Insert(d).
C10_InsertUnique ==
    [][ (op' = "InsertUnique")
          => IF Lookup(this, arg')
             THEN ~ret' /\ thisNext = this
             ELSE \E coin \in {0, 1}, js \in SlotChoices :
                     LET r == Insert(this, arg', coin, js)
                     IN  r.cf = thisNext /\ r.ok = ret' ]_vars

\* An InsertUnique of an item that was not found has just succeeded
\* through eviction.
C10_Witness == op = "InsertUnique" /\ ret /\ swaps > 0

(***************************************************************************)
(* C11  Capacity rounding.  NewFilter(c) returns an empty filter (every    *)
(* slot 0, Count 0) with max(1, nextPow2(c) / 4) buckets and BucketPow the *)
(* base-2 logarithm of that number; NewFilter(0) and NewFilter(1) have     *)
(* exactly 1 bucket; for c >= 4 the number of buckets is                   *)
(* 2^ceil(log2(c / 4)), the smallest power of two p with 4 * p >= c.       *)
(* Under the specification SpecNew.                                        *)
(***************************************************************************)
\* n >= 1 is a power of two.
RECURSIVE PowerOfTwo(_)
PowerOfTwo(n) == n = 1 \/ (n % 2 = 0 /\ PowerOfTwo(n \div 2))

\* The smallest power of two >= n, for n >= 1.
SmallestPow2AtLeast(n) ==
    CHOOSE p \in 1 .. (2 * n) :
        PowerOfTwo(p) /\ p >= n /\ \A q \in 1 .. (p - 1) : ~(PowerOfTwo(q) /\ q >= n)

\* 2^ceil(log2(c / 4)) for c >= 4.
CeilPow2OfQuarter(c) ==
    CHOOSE p \in 1 .. c :
        PowerOfTwo(p) /\ 4 * p >= c /\ \A q \in 1 .. (p - 1) : ~(PowerOfTwo(q) /\ 4 * q >= c)

C11_CapacityRounding ==
    op = "NewFilter" =>
        LET nextPow2 == IF capacity = 0 THEN 1 ELSE SmallestPow2AtLeast(capacity)
            quarter  == nextPow2 \div 4
            expected == IF quarter > 1 THEN quarter ELSE 1
        IN  /\ \A s \in SlotsOf(this) : Buckets[s[1]][s[2]] = 0
            /\ Count = 0
            /\ DOMAIN Buckets = 0 .. (expected - 1)
            /\ Pow2(BucketPow) = expected
            /\ capacity \in {0, 1} => NumBuckets(this) = 1
            /\ capacity >= 4 => NumBuckets(this) = CeilPow2OfQuarter(capacity)

C11_Witness ==
    /\ op = "NewFilter"
    /\ capacity = 33
    /\ NumBuckets(this) = 16
    /\ BucketPow = 4

(***************************************************************************)
(* C12  Reset.  From any reachable state, after Reset() every slot of      *)
(* every bucket is 0, Count is 0, and the number of buckets and BucketPow  *)
(* are as before; Lookup(d) is then false for every d, and stays false     *)
(* over every call that is not a successful Insert (on its own or inside   *)
(* InsertUnique).                                                          *)
(***************************************************************************)
AllSlotsEmpty(f) == \A s \in SlotsOf(f) : f.Buckets[s[1]][s[2]] = 0

NoLookup(f) == \A d \in Data : ~Lookup(f, d)

SuccessfulInsert == op' \in {"Insert", "InsertUnique"} /\ ret'

C12_Reset ==
    [][ /\ op' = "Reset" =>
            /\ AllSlotsEmpty(thisNext)
            /\ Count' = 0
            /\ DOMAIN Buckets' = DOMAIN Buckets
            /\ NumBuckets(thisNext) = NumBuckets(this)
            /\ BucketPow' = BucketPow
            /\ NoLookup(thisNext)
        /\ (AllSlotsEmpty(this) /\ Count = 0 /\ NoLookup(this) /\ ~SuccessfulInsert) =>
            (AllSlotsEmpty(thisNext) /\ Count' = 0 /\ NoLookup(thisNext))
      ]_vars

C12_Witness ==
    /\ op = "Reset"
    /\ calls = CallCap
    /\ NumBuckets(this) = 3
    /\ AllSlotsEmpty(this)
    /\ Count = 0

(***************************************************************************)
(* C13  CopyFilter independence.  The filter returned by                   *)
(* CopyFilter(buckets, count, bucketPow) has the bucket contents of the    *)
(* source array at the time of the call; an Insert, Delete or Reset on the *)
(* copy leaves the source array unchanged, and a write to the source array *)
(* leaves the copy unchanged.  Under the specification SpecCopy.           *)
(***************************************************************************)
C13_CopyIndependence ==
    [][ /\ op' = "CopyFilter" =>
            /\ Buckets' = heap[SourceAddr]
            /\ heap'[slice'] = heap[SourceAddr]
            /\ heap'[SourceAddr] = heap[SourceAddr]
        /\ (slice # 0 /\ op' \in {"Insert", "Delete", "Reset"}) =>
            /\ heap'[SourceAddr] = heap[SourceAddr]
            /\ Buckets' = heap'[slice']
        /\ op' = "SourceWrite" =>
            /\ Buckets' = Buckets
            /\ heap'[slice'] = heap[slice]
            /\ Count' = Count
            /\ BucketPow' = BucketPow
      ]_vars

\* The copy and the source have diverged: both were written after the copy.
C13_Witness ==
    /\ slice # 0
    /\ op = "Insert"
    /\ ret
    /\ Buckets[0] = [j \in Slots |-> 1]
    /\ heap[slice] = Buckets
    /\ heap[SourceAddr][0] = [j \in Slots |-> IF j = 0 THEN 2 ELSE IF j = 3 THEN 0 ELSE 1]

(***************************************************************************)
(* C14  A successful Insert that goes through eviction is a pure          *)
(* relocation.  When Insert(d) returns true after at least one swap, the   *)
(* multiset of stored fingerprints afterwards                              *)
(* is the multiset before plus one copy of d's fingerprint; a fingerprint  *)
(* that changed bucket moved from a bucket i to getAltIndex(fp, i), so the *)
(* copies of each fingerprint fp in the pair {i, getAltIndex(fp, i)} are   *)
(* as before, plus the new copy in the pair of d's index; and every item   *)
(* whose Lookup was true before the call has Lookup true after it.         *)
(***************************************************************************)
\* The copies of fingerprint x in bucket b.
InBucket(b, x) == Cardinality({j \in Slots : b[j] = x})

\* The copies of fingerprint x in the whole filter.
InFilter(f, x) ==
    LET RECURSIVE upTo(_)
        upTo(n) == IF n = 0 THEN 0 ELSE upTo(n - 1) + InBucket(f.Buckets[n - 1], x)
    IN  upTo(NumBuckets(f))

\* The copies of fingerprint x in bucket i and its alternate bucket.
InPair(f, x, i) ==
    LET alt == getAltIndex(x, i, f.BucketPow)
    IN  InBucket(f.Buckets[i], x) + (IF alt = i THEN 0 ELSE InBucket(f.Buckets[alt], x))

C14_PureRelocation ==
    [][ (op' = "Insert" /\ ret' /\ swaps' > 0) =>
            LET h   == getIndexAndFingerprint(arg', BucketPow)
                fps == StoredIn(this) \cup StoredIn(thisNext) \cup {h.fp}
            IN  /\ \A x \in fps :
                      InFilter(thisNext, x) = InFilter(this, x) + (IF x = h.fp THEN 1 ELSE 0)
                /\ \A x \in fps, i \in DOMAIN Buckets :
                      InPair(thisNext, x, i) =
                          InPair(this, x, i)
                          + (IF x = h.fp /\ h.i \in {i, getAltIndex(x, i, BucketPow)}
                             THEN 1 ELSE 0)
                /\ \A d \in Data : Lookup(this, d) => Lookup(thisNext, d)
      ]_vars

\* An Insert that succeeded through eviction in a two-bucket filter, which
\* it left full.
C14_Witness ==
    /\ op = "Insert"
    /\ ret
    /\ swaps > 0
    /\ NumBuckets(this) = 2
    /\ Occupied(this) = 2 * bucketSize

(***************************************************************************)
(* C15  Effect of Insert on Count.  An Insert that returns true increases  *)
(* Count by exactly 1 for the whole call, however many swaps it made; an   *)
(* Insert that returns false leaves Count and the number of occupied slots *)
(* exactly as they were before the call.                                   *)
(***************************************************************************)
\* The number of non-zero slots, counted bucket by bucket.
OccupiedSlots(f) == (NumBuckets(f) * bucketSize) - InFilter(f, 0)

C15_InsertCount ==
    [][ op' = "Insert" =>
            IF ret'
            THEN Count' = Count + 1
            ELSE Count' = Count /\ OccupiedSlots(thisNext) = OccupiedSlots(this)
      ]_vars

\* An Insert that returned true after the largest number of swaps.
C15_Witness ==
    /\ op = "Insert"
    /\ ret
    /\ swaps = CuckooLimit
    /\ Count = OccupiedSlots(this)
    /\ Count > bucketSize

(***************************************************************************)
(* C16  Bounded eviction.  Every Insert call, for every choice of the     *)
(* random start bucket and of the random slots, returns after at most      *)
(* maxCuckooCount swaps (at most CuckooLimit, the loop bound of the        *)
(* model); it returns false only after CuckooLimit swaps, each relocation  *)
(* having found a full bucket; and it returns true without any swap        *)
(* whenever one of the two candidate buckets of d has an empty slot.       *)
(***************************************************************************)
\* One of the candidate buckets of d has an empty slot.
HasRoom(f, d) == \E i \in Candidates(f, d) : \E j \in Slots : f.Buckets[i][j] = 0

C16_BoundedEviction ==
    [][ op' = "Insert" =>
            /\ swaps' <= CuckooLimit
            /\ swaps' <= maxCuckooCount
            /\ ~ret' => (swaps' = CuckooLimit /\ ~HasRoom(thisNext, arg'))
            /\ HasRoom(this, arg') => (ret' /\ swaps' = 0)
      ]_vars

\* An Insert that gave up in a two-bucket filter.
C16_Witness ==
    /\ op = "Insert"
    /\ ~ret
    /\ swaps = CuckooLimit
    /\ NumBuckets(this) = 2
    /\ \A d \in Data : ~HasRoom(this, d)

(***************************************************************************)
(* C17  Delete removes exactly one occurrence.  Delete(d) returns true if  *)
(* and only if d's fingerprint is in bucket i1 or bucket i2 before the     *)
(* call; when it returns true exactly one slot that held the fingerprint   *)
(* is set to 0, in i1 if the fingerprint was there and otherwise in i2,    *)
(* every other slot is unchanged, even when the fingerprint occurs several *)
(* times in the two buckets; when it returns false nothing changes.        *)
(* Under the specification SpecDelete.                                     *)
(***************************************************************************)
\* The slots whose content differs between f and g.
ChangedSlots(f, g) == {s \in SlotsOf(f) : f.Buckets[s[1]][s[2]] # g.Buckets[s[1]][s[2]]}

\* What a Delete step does to the buckets.
DeleteClearsOne ==
    LET h   == getIndexAndFingerprint(arg', BucketPow)
        i1  == h.i
        i2  == getAltIndex(h.fp, h.i, BucketPow)
        in1 == InBucket(Buckets[i1], h.fp) > 0
        in2 == InBucket(Buckets[i2], h.fp) > 0
        from == IF in1 THEN i1 ELSE i2
    IN  /\ ret' <=> (in1 \/ in2)
        /\ DOMAIN Buckets' = DOMAIN Buckets
        /\ BucketPow' = BucketPow
        /\ ret' =>
              /\ Cardinality(ChangedSlots(this, thisNext)) = 1
              /\ \A s \in ChangedSlots(this, thisNext) :
                    /\ s[1] = from
                    /\ Buckets[s[1]][s[2]] = h.fp
                    /\ Buckets'[s[1]][s[2]] = 0
        /\ ~ret' => thisNext = this

\* As stated: a Delete that returns true lowers Count by exactly 1.
C17_Original ==
    [][ op' = "Delete" => (DeleteClearsOne /\ (ret' => Count' = Count - 1)) ]_vars

\* As amended: a Delete that returns true lowers Count by exactly 1 when
\* Count was positive, and leaves it 0 when it was 0.
C17_DeleteOne ==
    [][ op' = "Delete" =>
            /\ DeleteClearsOne
            /\ ret' => Count' = (IF Count > 0 THEN Count - 1 ELSE 0)
      ]_vars

\* A Delete that returned true and left copies of the fingerprint in both
\* buckets of the item.
C17_Witness ==
    /\ op = "Delete"
    /\ ret
    /\ NumBuckets(this) = 2
    /\ getAltIndex(getFingerprint(arg), 0, BucketPow) = 1
    /\ InBucket(Buckets[0], getFingerprint(arg)) > 0
    /\ InBucket(Buckets[1], getFingerprint(arg)) > 0

(***************************************************************************)
(* C18  The sentinel is never data.  The hash layer never yielding the     *)
(* fingerprint 0, no Insert writes 0 into a slot, and no swap of reinsert  *)
(* picks up an empty slot as the evicted fingerprint: every swap is made   *)
(* in a bucket that is full.  Hence the fingerprint in hand is never 0,    *)
(* and a swap never changes which slots are occupied: the occupied slots   *)
(* after an Insert are those before it, plus one when it returns true.     *)
(***************************************************************************)
C18_SentinelNeverData ==
    [][ op' = "Insert" =>
            /\ getIndexAndFingerprint(arg', BucketPow).fp # 0
            /\ empties' = 0
            /\ loose' = 0
            /\ ~ret' => hand' # 0
            /\ \A i \in DOMAIN Buckets, j \in Slots :
                  Buckets[i][j] # 0 => Buckets'[i][j] # 0
            /\ OccupiedSlots(thisNext) = OccupiedSlots(this) + (IF ret' THEN 1 ELSE 0)
      ]_vars

\* An Insert that gave up in a filter of three buckets, a fingerprint in hand.
C18_Witness ==
    /\ op = "Insert"
    /\ swaps > 0
    /\ hand \in Fingerprints
    /\ empties = 0
    /\ loose = 0
    /\ NumBuckets(this) = 3

(***************************************************************************)
(* C19  Index bounds.  In every filter obtained from NewFilter or from a   *)
(* successful Decode (also of a byte length whose number of buckets is not *)
(* a power of two), and in every state reached from it, every bucket index *)
(* used by Lookup, Insert, reinsert and Delete, that is the primary index  *)
(* of every item and every alternate index of a fingerprint from an index  *)
(* below 2^BucketPow, is below 2^BucketPow and below the length of the     *)
(* bucket array.                                                           *)
(***************************************************************************)
\* The indices the masks let through.
Masked(f) == 0 .. (Pow2(f.BucketPow) - 1)

C19_IndexBounds ==
    /\ DOMAIN Buckets = 0 .. (NumBuckets(this) - 1)
    /\ Pow2(BucketPow) <= NumBuckets(this)
    /\ \A d \in Data :
          LET h == getIndexAndFingerprint(d, BucketPow)
          IN  /\ h.i \in Masked(this)
              /\ h.i < NumBuckets(this)
              /\ getAltIndex(h.fp, h.i, BucketPow) < NumBuckets(this)
    /\ \A x \in StoredIn(this) \cup Fingerprints, i \in Masked(this) :
          /\ getAltIndex(x, i, BucketPow) \in Masked(this)
          /\ getAltIndex(x, i, BucketPow) < NumBuckets(this)

\* A filter of three buckets, decoded from 12 bytes, after an Insert that
\* went through reinsert.
C19_Witness ==
    /\ NumBuckets(this) = 3
    /\ BucketPow = 0
    /\ op = "Insert"
    /\ swaps > 0
    /\ Count = bucketSize

====
